---- MODULE Spec2Model ----
(***************************************************************************)
(* A model of hackerman's feature-graph builder (src/src/feat_graph.rs)    *)
(* and of its manifest rewrite (src/src/toml.rs).                          *)
(*                                                                         *)
(* Conventions.  A name (&str) is a sequence of one-character strings.     *)
(* Option<T> is a sequence of length at most one: None == <<>> and         *)
(* Some(x) == <<x>>.  Vec indices (NodeIndex, package index) are the       *)
(* positions of a sequence, so they start at 1 where Rust starts at 0.     *)
(***************************************************************************)
EXTENDS Integers, Sequences, FiniteSets, TLC

VARIABLES
    meta,        \* the metadata snapshot and the requested platforms (inputs)
    features,    \* FeatGraph2::features, the petgraph Graph
    fids,        \* FeatGraph2::fids
    platforms,   \* FeatGraph2::platforms
    root,        \* FeatGraph2::root
    pc,          \* position of init() in its sequence of calls
    next_ix,     \* the package index the add_package loop of init() is at
    to_visit,    \* the stack of fill_in_platforms
    seen,        \* history: the states the loop of fill_in_platforms was in
    to_remove,   \* the pending removals of the trim pass in progress
    round,       \* the turns of the loop of trim_unused_features so far
    log,         \* what transitive_reduction reports with debug!
    result,      \* what init() returned, or how it ended
    in_a, in_b, in_rename,  \* inputs of the name-matching functions
    out,         \* the last name-matching call and what it returned
    manifest,    \* the manifest file on disk (toml.rs)
    toml_ret     \* the last set_dependencies call and what it returned

vars == <<meta, features, fids, platforms, root, pc, next_ix, to_visit, seen,
          to_remove, round, log, result, in_a, in_b, in_rename, out, manifest, toml_ret>>

graph_vars == <<meta, features, fids, platforms, root, pc, next_ix, to_visit,
                seen, to_remove, round, log, result>>
name_vars == <<in_a, in_b, in_rename, out>>
toml_vars == <<manifest, toml_ret>>

None == <<>>
Some(x) == <<x>>

Min(a, b) == IF a <= b THEN a ELSE b

(***************************************************************************)
(* Names and name matching                                                 *)
(***************************************************************************)

\* The longest name the name-matching inputs are drawn from.
MaxNameLen == 3

Chars == {"a", "A", "-", "_"}

Names == UNION {[1..n -> Chars] : n \in 0..MaxNameLen}

\* char::to_ascii_lowercase on the characters in use.
to_ascii_lowercase(c) ==
    CASE c = "A" -> "a"
      [] c = "D" -> "d"
      [] c = "E" -> "e"
      [] c = "P" -> "p"
      [] OTHER -> c

\* fn name_cmp: zip stops at the end of the shorter name.
name_cmp(a, b) ==
    \A i \in 1..Min(Len(a), Len(b)) :
        \/ to_ascii_lowercase(a[i]) = to_ascii_lowercase(b[i])
        \/ (a[i] = "-" /\ b[i] = "_")

\* The closure of find_dep_by_name: which name of a declared dependency is
\* compared with the looked-up name.
dep_matches(d, name) ==
    IF d.rename # None THEN name_cmp(d.rename[1], name)
    ELSE name_cmp(d.name, name)

\* fn find_dep_by_name: Some(position of the first match), or None for the
\* error "No dependency named {name}".
find_dep_by_name(deps, name) ==
    LET hits == {i \in 1..Len(deps) : dep_matches(deps[i], name)}
    IN IF hits = {} THEN None
       ELSE Some(CHOOSE i \in hits : \A j \in hits : i <= j)

(***************************************************************************)
(* The petgraph Graph: nodes and edges are Vecs, an index is a position.   *)
(***************************************************************************)

\* enum Feature: Root carries no Fid; Workspace and External carry Fid(pid, feat).
Root == [tag |-> "Root", pid |-> 0, feat |-> None]

\* struct Fid(Pid, Option<&str>); a Pid is compared by its package index alone.
Fid(pid, feat) == [pid |-> pid, feat |-> feat]

\* Feature::fid
feature_fid(w) == IF w.tag = "Root" THEN None ELSE Some(Fid(w.pid, w.feat))

\* struct Link
Link(optional, kinds) == [optional |-> optional, kinds |-> kinds]

\* Graph::new
EmptyGraph == [nodes |-> <<>>, edges |-> <<>>]

\* Graph::add_node: the new node takes the next index.
add_node(g, w) == [g EXCEPT !.nodes = Append(@, w)]

\* Graph::add_edge: parallel edges are allowed, the new edge takes the next index.
add_edge(g, a, b, link) ==
    [g EXCEPT !.edges = Append(@, [source |-> a, target |-> b, weight |-> link])]

\* Graph::remove_node: nothing happens for an index that is out of range;
\* otherwise every edge with an endpoint in a is removed and the node is
\* swap_removed, so the last node adopts index a (and its edges follow it).
\* The positions of the remaining edges are not observed by the program and
\* are kept in insertion order here.
remove_node(g, a) ==
    IF a \notin 1..Len(g.nodes) THEN g
    ELSE LET last == Len(g.nodes)
             kept == SelectSeq(g.edges,
                               LAMBDA e : e.source # a /\ e.target # a)
             mv(i) == IF i = last THEN a ELSE i
         IN [nodes |-> [i \in 1..(last - 1) |->
                            IF i = a THEN g.nodes[last] ELSE g.nodes[i]],
             edges |-> [i \in 1..Len(kept) |->
                            [kept[i] EXCEPT !.source = mv(@), !.target = mv(@)]]]

NodeIndices(g) == 1..Len(g.nodes)

\* Graph::edges_directed(source, Outgoing): the edges out of a node, the most
\* recently added first (add_edge puts the new edge at the head of the list).
RECURSIVE edges_directed_from(_, _, _)
edges_directed_from(g, source, k) ==
    IF k = 0 THEN <<>>
    ELSE IF g.edges[k].source = source
         THEN <<g.edges[k]>> \o edges_directed_from(g, source, k - 1)
         ELSE edges_directed_from(g, source, k - 1)

edges_directed(g, source) == edges_directed_from(g, source, Len(g.edges))

\* Graph::externals(Incoming): the indices of the nodes without an incoming
\* edge, in index order.
RECURSIVE externals_from(_, _)
externals_from(g, i) ==
    IF i > Len(g.nodes) THEN <<>>
    ELSE IF \E k \in 1..Len(g.edges) : g.edges[k].target = i
         THEN externals_from(g, i + 1)
         ELSE <<i>> \o externals_from(g, i + 1)

externals(g) == externals_from(g, 1)

\* The pairs (source, target) joined by at least one edge.
Arcs(g) == {<<g.edges[k].source, g.edges[k].target>> : k \in 1..Len(g.edges)}

\* Reach[n](E): the nodes reachable from the node set S over arcs E in at most n steps.
RECURSIVE ReachFrom(_, _)
ReachFrom(S, E) ==
    LET T == S \cup {e[2] : e \in {x \in E : x[1] \in S}}
    IN IF T = S THEN S ELSE ReachFrom(T, E)

\* Nodes reachable from a by a path of at least one arc.
Succ(a, E) == ReachFrom({e[2] : e \in {x \in E : x[1] = a}}, E)

\* The graph has a directed cycle (a self-loop included).
HasCycle(g) == \E a \in NodeIndices(g) : a \in Succ(a, Arcs(g))

(***************************************************************************)
(* Construction: FeatGraph2::fid_index and FeatGraph2::add_package.        *)
(* A builder state st is the pair [features, fids] the two methods change. *)
(***************************************************************************)

FDefault == <<"d", "e", "f", "a", "u", "l", "t">>

\* init(): library_renames maps a package whose lib target is named
\* differently from the package to the package's name.
library_renames ==
    [p \in {q \in 1..Len(meta.packages) :
               /\ meta.packages[q].lib # None
               /\ meta.packages[q].lib[1] # meta.packages[q].name}
        |-> meta.packages[p].name]

\* fid_index: the state after the call; the index it returns is st.fids[f].
fid_index(st, f) ==
    IF f \in DOMAIN st.fids THEN st
    ELSE [features |-> add_node(st.features,
                         [tag |-> IF f.pid \in meta.workspace_members
                                  THEN "Workspace" ELSE "External",
                          pid |-> f.pid, feat |-> f.feat]),
          fids |-> st.fids @@ (f :> Len(st.features.nodes) + 1)]

with_edge(st, a, b, link) == [st EXCEPT !.features = add_edge(@, a, b, link)]

\* str::split_once('/')
split_once(s) ==
    LET at == {i \in 1..Len(s) : s[i] = "/"}
    IN IF at = {} THEN None
       ELSE LET i == CHOOSE x \in at : \A y \in at : x <= y
            IN Some(<<SubSeq(s, 1, i - 1), SubSeq(s, i + 1, Len(s))>>)

\* Link { optional: false, kinds: &[] }
root_link == Link(FALSE, <<>>)

\* add_package, lines 258-265: the edge out of Root for a workspace member.
add_root_edge(st, ix) ==
    LET package == meta.packages[ix]
        base_ix == st.fids[Fid(ix, None)]
    IN IF ix \in meta.workspace_members
       THEN IF \E k \in 1..Len(package.features) : package.features[k].key = FDefault
            THEN LET s1 == fid_index(st, Fid(ix, Some(FDefault)))
                 IN with_edge(s1, root, s1.fids[Fid(ix, Some(FDefault))], root_link)
            ELSE with_edge(st, root, base_ix, root_link)
       ELSE st

\* add_package, lines 292-295: one edge per feature the declaration requests.
RECURSIVE add_feat_edges(_, _, _, _, _, _)
add_feat_edges(st, link_source, dep_pid, feats, k, link) ==
    IF k > Len(feats) THEN st
    ELSE LET s1 == fid_index(st, Fid(dep_pid, Some(feats[k])))
         IN add_feat_edges(
                with_edge(s1, link_source, s1.fids[Fid(dep_pid, Some(feats[k]))], link),
                link_source, dep_pid, feats, k + 1, link)

\* add_package, lines 271-275: the declaration of a resolved dependency.
specified_dep_of(ix, resolved_dep) ==
    LET specified_deps == meta.packages[ix].dependencies
        first == find_dep_by_name(specified_deps, resolved_dep.name)
    IN IF resolved_dep.pkg \in DOMAIN library_renames
       THEN IF first # None THEN first
            ELSE find_dep_by_name(specified_deps, library_renames[resolved_dep.pkg])
       ELSE first

\* add_package, lines 270-297: the loop over the resolved dependencies, from
\* the k-th on.  [ok |-> FALSE] is the error of find_dep_by_name.
RECURSIVE add_resolved_deps(_, _, _)
add_resolved_deps(st, ix, k) ==
    LET resolved_deps == meta.resolve[ix].deps
    IN IF k > Len(resolved_deps) THEN [ok |-> TRUE, st |-> st]
       ELSE LET resolved_dep == resolved_deps[k]
                found == specified_dep_of(ix, resolved_dep)
            IN IF found = None THEN [ok |-> FALSE, st |-> st]
               ELSE LET specified_dep == meta.packages[ix].dependencies[found[1]]
                        dep_pid == resolved_dep.pkg
                        link == Link(specified_dep.optional, resolved_dep.dep_kinds)
                        src == IF link.optional
                               THEN Fid(ix, Some(resolved_dep.name))
                               ELSE Fid(ix, None)
                        s1 == fid_index(st, src)
                        link_source == s1.fids[src]
                        s2 == IF specified_dep.features = <<>>
                              THEN LET s3 == fid_index(s1, Fid(dep_pid, None))
                                   IN with_edge(s3, link_source,
                                                s3.fids[Fid(dep_pid, None)], link)
                              ELSE add_feat_edges(s1, link_source, dep_pid,
                                                  specified_dep.features, 1, link)
                    IN add_resolved_deps(s2, ix, k + 1)

\* resolved_deps.iter().find(|d| name_cmp(other_name, &d.name))
find_resolution(resolved_deps, other_name) ==
    LET hits == {i \in 1..Len(resolved_deps) :
                    name_cmp(other_name, resolved_deps[i].name)}
    IN IF hits = {} THEN None
       ELSE Some(CHOOSE i \in hits : \A j \in hits : i <= j)

\* add_package, lines 309-331: the requirements of one local feature, from
\* the k-th on.
RECURSIVE add_local_deps(_, _, _, _, _)
add_local_deps(st, ix, local_feat, local_deps, k) ==
    IF k > Len(local_deps) THEN [ok |-> TRUE, st |-> st]
    ELSE LET other == local_deps[k]
             local_ix == st.fids[Fid(ix, Some(local_feat))]
             parts == split_once(other)
         IN IF parts # None
            THEN LET other_name == parts[1][1]
                     other_feat == parts[1][2]
                     decl == find_dep_by_name(meta.packages[ix].dependencies, other_name)
                     res == find_resolution(meta.resolve[ix].deps, other_name)
                 IN IF decl = None THEN [ok |-> FALSE, st |-> st]
                    ELSE IF res = None
                    THEN add_local_deps(st, ix, local_feat, local_deps, k + 1)
                    ELSE LET dep_resolution == meta.resolve[ix].deps[res[1]]
                             dep_declaration == meta.packages[ix].dependencies[decl[1]]
                             dep_pid == dep_resolution.pkg
                             link == Link(dep_declaration.optional,
                                          dep_resolution.dep_kinds)
                             s1 == fid_index(st, Fid(dep_pid, Some(other_feat)))
                         IN add_local_deps(
                                with_edge(s1, local_ix,
                                          s1.fids[Fid(dep_pid, Some(other_feat))], link),
                                ix, local_feat, local_deps, k + 1)
            ELSE LET s1 == fid_index(st, Fid(ix, Some(other)))
                 IN add_local_deps(
                        with_edge(s1, local_ix, s1.fids[Fid(ix, Some(other))], root_link),
                        ix, local_feat, local_deps, k + 1)

\* add_package, lines 300-332: the loop over the package's feature table,
\* from the k-th entry on (a BTreeMap: the entries come in key order).
RECURSIVE add_local_features(_, _, _)
add_local_features(st, ix, k) ==
    LET table == meta.packages[ix].features
    IN IF k > Len(table) THEN [ok |-> TRUE, st |-> st]
       ELSE LET local_feat == table[k].key
                s1 == fid_index(st, Fid(ix, Some(local_feat)))
                s2 == with_edge(s1, s1.fids[Fid(ix, Some(local_feat))],
                                s1.fids[Fid(ix, None)], root_link)
                r == add_local_deps(s2, ix, local_feat, table[k].reqs, 1)
            IN IF r.ok THEN add_local_features(r.st, ix, k + 1) ELSE r

\* FeatGraph2::add_package
add_package(st, ix) ==
    LET s0 == fid_index(st, Fid(ix, None))
        s1 == add_root_edge(s0, ix)
        r == add_resolved_deps(s1, ix, 1)
    IN IF r.ok THEN add_local_features(r.st, ix, 1) ELSE r

(***************************************************************************)
(* The metadata snapshots init() is run on.                                *)
(***************************************************************************)

\* The most dependency declarations a snapshot holds.
MaxDeps == 2

\* The most feature-table entries a snapshot holds.
MaxFeats == 2

\* The deepest the stack of fill_in_platforms may grow before the run is
\* cut off as out of memory.
MaxStack == 6

\* The packages of the snapshot, in the order of meta.packages (by name).
PkgNames == << <<"d">>, <<"d", "-", "e">>, <<"p">> >>

Pids == 1..Len(PkgNames)

FA == <<"a">>

\* A lib target is named after its package, dashes turned into underscores;
\* the resolver reports a dependency under that name.
Underscored(name) == [i \in 1..Len(name) |-> IF name[i] = "-" THEN "_" ELSE name[i]]

PlatformLists == {<<"p1">>, <<"p1", "p2">>}

\* DepKindInfo lists: a dependency for every target, or for cfg(p2) alone.
KindChoices ==
    {<<[kind |-> "normal", target |-> None]>>,
     <<[kind |-> "normal", target |-> Some({"p2"})]>>}

\* The workspace holds d, or p, or both.
WsChoices == {{1}, {3}, {1, 3}}

\* Who may depend on whom: p on d and on d-e, d on d-e and on p, d-e on d.
DepPairs == {<<3, 1>>, <<3, 2>>, <<1, 2>>, <<1, 3>>, <<2, 1>>}

\* A declaration is optional, or requests the features [] or ["a"].
DepChoices ==
    {d \in [from : Pids, to : Pids, optional : BOOLEAN,
            features : {<<>>, <<FA>>}, kinds : KindChoices] :
        /\ <<d.from, d.to>> \in DepPairs
        /\ d.optional => d.features = <<>>}

\* d and p may declare the features "a" and "default", each requiring
\* nothing or the other one.
FeatChoices ==
    {f \in [pkg : {1, 3}, key : {FA, FDefault},
            reqs : {<<>>, <<FA>>, <<FDefault>>}] : f.reqs # <<f.key>>}

\* The sets of at most n dependency declarations, one per pair of packages.
RECURSIVE DepSetsUpTo(_)
DepSetsUpTo(n) ==
    IF n = 0 THEN {{}}
    ELSE LET less == DepSetsUpTo(n - 1)
         IN less \cup
            {y[1] \cup {y[2]} : y \in
                {z \in less \X DepChoices :
                    \A d \in z[1] : d.from # z[2].from \/ d.to # z[2].to}}

\* The sets of at most n feature-table entries, one per package and key.
RECURSIVE FeatSetsUpTo(_)
FeatSetsUpTo(n) ==
    IF n = 0 THEN {{}}
    ELSE LET less == FeatSetsUpTo(n - 1)
         IN less \cup
            {y[1] \cup {y[2]} : y \in
                {z \in less \X FeatChoices :
                    \A f \in z[1] : f.pkg # z[2].pkg \/ f.key # z[2].key}}

\* cargo rejects a manifest with a feature that requires an undeclared one.
FeatSets(n) ==
    {F \in FeatSetsUpTo(n) :
        \A f \in F : \A k \in 1..Len(f.reqs) :
            \E g \in F : g.pkg = f.pkg /\ g.key = f.reqs[k]}

\* The declarations of D out of package i to the packages j.., in name order.
RECURSIVE DepsFrom(_, _, _)
DepsFrom(i, D, j) ==
    IF j > Len(PkgNames) THEN <<>>
    ELSE LET here == {d \in D : d.from = i /\ d.to = j}
         IN (IF here = {} THEN <<>> ELSE <<CHOOSE d \in here : TRUE>>)
            \o DepsFrom(i, D, j + 1)

\* The feature table of package i: a BTreeMap, "a" sorts before "default".
FeatureTable(i, F) ==
    LET entry(key) ==
            LET here == {f \in F : f.pkg = i /\ f.key = key}
            IN IF here = {} THEN <<>>
               ELSE LET f == CHOOSE x \in here : TRUE
                    IN <<[key |-> f.key, reqs |-> f.reqs]>>
    IN entry(FA) \o entry(FDefault)

\* cargo_metadata::Package
PackageOf(i, D, F) ==
    [name |-> PkgNames[i],
     lib |-> Some(Underscored(PkgNames[i])),
     features |-> FeatureTable(i, F),
     dependencies |->
        LET ds == DepsFrom(i, D, 1)
        IN [k \in 1..Len(ds) |->
               [name |-> PkgNames[ds[k].to], rename |-> None,
                optional |-> ds[k].optional, features |-> ds[k].features]]]

\* cargo_metadata::Node
NodeOf(i, D) ==
    [deps |->
        LET ds == DepsFrom(i, D, 1)
        IN [k \in 1..Len(ds) |->
               [name |-> Underscored(PkgNames[ds[k].to]), pkg |-> ds[k].to,
                dep_kinds |-> ds[k].kinds]]]

\* The snapshots with at most nd dependency declarations and nf feature-table
\* entries.
Snapshots(nd, nf) ==
    {[workspace_members |-> ws,
      packages |-> [i \in Pids |-> PackageOf(i, D, F)],
      resolve |-> [i \in Pids |-> NodeOf(i, D)],
      platforms |-> pl] :
        ws \in WsChoices, D \in DepSetsUpTo(nd), F \in FeatSets(nf),
        pl \in PlatformLists}

(***************************************************************************)
(* FeatGraph2::init and the passes it calls, one action per step.          *)
(***************************************************************************)

EmptyMap == [x \in {} |-> 0]

\* The filter closure of fill_in_platforms: is the edge active on platform p?
edge_active(link, p) ==
    \/ \E k \in 1..Len(link.kinds) :
          \/ link.kinds[k].target = None
          \/ p \in link.kinds[k].target[1]
    \/ link.kinds = <<>>

edge_filter(cur_platforms, link) ==
    SelectSeq(cur_platforms, LAMBDA p : edge_active(link, p))

\* A mutation of visit_edges: a later arrival unions its platforms in.
RECURSIVE visit_edges_union(_, _, _, _)
visit_edges_union(pm, cur_platforms, es, k) ==
    IF k > Len(es) THEN pm
    ELSE LET t == es[k].target
             new == edge_filter(cur_platforms, es[k].weight)
             pm1 == IF t \in DOMAIN pm
                    THEN [pm EXCEPT ![t] =
                            SelectSeq(meta.platforms, LAMBDA p :
                                \/ \E i \in 1..Len(pm[t]) : pm[t][i] = p
                                \/ \E i \in 1..Len(new) : new[i] = p)]
                    ELSE pm @@ (t :> new)
         IN visit_edges_union(pm1, cur_platforms, es, k + 1)

\* fill_in_platforms, lines 147-167: the platform map after the edges es[k..]
\* out of the popped node; entry().or_insert_with() keeps an existing entry.
RECURSIVE visit_edges(_, _, _, _)
visit_edges(pm, cur_platforms, es, k) ==
    IF k > Len(es) THEN pm
    ELSE LET t == es[k].target
             pm1 == IF t \in DOMAIN pm THEN pm
                    ELSE pm @@ (t :> edge_filter(cur_platforms, es[k].weight))
         IN visit_edges(pm1, cur_platforms, es, k + 1)

\* trim_unused_platforms, lines 220-223: the keys of the platform map whose
\* list is empty, in key order.
RECURSIVE empty_platform_keys(_, _)
empty_platform_keys(pm, i) ==
    IF \A j \in DOMAIN pm : j < i THEN <<>>
    ELSE (IF i \in DOMAIN pm /\ pm[i] = <<>> THEN <<i>> ELSE <<>>)
         \o empty_platform_keys(pm, i + 1)

\* A mutation of external_candidates: the variant of the node is not looked at.
external_candidates_any(g) == externals(g)

\* trim_unused_features, lines 204-208: the External nodes among the nodes
\* without an incoming edge.
external_candidates(g) ==
    SelectSeq(externals(g), LAMBDA f : g.nodes[f].tag = "External")

\* dag_transitive_reduction_closure: an arc (a, b) is in the reduction of an
\* acyclic graph iff no other path leads from a to b.
InReduction(a, b, E) == \A c \in {e[2] : e \in {x \in E : x[1] = a}} \ {b} :
                            b \notin ReachFrom({c}, E)

\* A mutation of retain_reduction: an arc is dropped as soon as its target has
\* another incoming arc.
retain_greedy(g) ==
    [g EXCEPT !.edges =
        SelectSeq(g.edges, LAMBDA e :
            \A k \in 1..Len(g.edges) :
                g.edges[k].target = e.target => g.edges[k].source = e.source)]

\* transitive_reduction, lines 189-195: retain_edges keeps an edge iff the
\* reduction holds an arc between its endpoints.
retain_reduction(g) ==
    [g EXCEPT !.edges =
        SelectSeq(g.edges, LAMBDA e : InReduction(e.source, e.target, Arcs(g)))]

Init ==
    /\ meta \in Snapshots(MaxDeps, MaxFeats)
    /\ features = add_node(EmptyGraph, Root)
    /\ root = 1
    /\ fids = EmptyMap
    /\ platforms = EmptyMap
    /\ pc = "add_package"
    /\ next_ix = 1
    /\ to_visit = <<>>
    /\ seen = {}
    /\ to_remove = <<>>
    /\ round = 0
    /\ log = None
    /\ result = "none"
    /\ in_a = <<>> /\ in_b = <<>> /\ in_rename = FALSE
    /\ out = [op |-> "none"]
    /\ manifest = [dependencies |-> EmptyMap, stash |-> None]
    /\ toml_ret = [call |-> "none"]

\* init(), lines 115-130: one add_package call; an error ends init().  After
\* the last package fill_in_platforms starts with to_visit = vec![self.root].
AddPackage ==
    /\ pc = "add_package"
    /\ LET r == add_package([features |-> features, fids |-> fids], next_ix)
       IN IF r.ok
          THEN /\ features' = r.st.features
               /\ fids' = r.st.fids
               /\ next_ix' = next_ix + 1
               /\ IF next_ix = Len(meta.packages)
                  THEN pc' = "fill_in_platforms" /\ to_visit' = <<root>>
                  ELSE pc' = "add_package" /\ to_visit' = to_visit
               /\ result' = result
          ELSE /\ pc' = "failed"
               /\ result' = "NameNotFound"
               /\ UNCHANGED <<features, fids, next_ix, to_visit>>
    /\ UNCHANGED <<meta, platforms, root, seen, to_remove, round, log,
                   name_vars, toml_vars>>

\* fill_in_platforms, lines 140-168: one turn of the while loop.
FillStep ==
    /\ pc = "fill_in_platforms"
    /\ to_visit # <<>>
    /\ LET source == to_visit[Len(to_visit)]
           cur_platforms == IF source = root THEN meta.platforms
                            ELSE platforms[source]
           es == edges_directed(features, source)
           stack == SubSeq(to_visit, 1, Len(to_visit) - 1)
                    \o [k \in 1..Len(es) |-> es[k].target]
       IN IF Len(stack) <= MaxStack
          THEN /\ platforms' = visit_edges(platforms, cur_platforms, es, 1)
               /\ to_visit' = stack
               /\ seen' = seen \cup {<<to_visit, platforms>>}
               /\ UNCHANGED <<pc, result>>
          ELSE /\ pc' = "failed"
               /\ result' = "OutOfMemory"
               /\ UNCHANGED <<platforms, to_visit, seen>>
    /\ UNCHANGED <<meta, features, fids, root, next_ix, to_remove, round, log,
                   name_vars, toml_vars>>

\* fill_in_platforms returns; optimize() calls trim_unused_platforms, whose
\* iterator is the filtered platform map.
FillDone ==
    /\ pc = "fill_in_platforms"
    /\ to_visit = <<>>
    /\ pc' = "trim_unused_platforms"
    /\ to_remove' = empty_platform_keys(platforms, 1)
    /\ seen' = {}
    /\ UNCHANGED <<meta, features, fids, platforms, root, next_ix, to_visit,
                   round, log, result, name_vars, toml_vars>>

\* trim_unused_platforms, lines 220-226: one turn of the for loop.
TrimPlatformsStep ==
    /\ pc = "trim_unused_platforms"
    /\ to_remove # <<>>
    /\ features' = remove_node(features, Head(to_remove))
    /\ to_remove' = Tail(to_remove)
    /\ UNCHANGED <<meta, fids, platforms, root, pc, next_ix, to_visit, seen,
                   round, log, result, name_vars, toml_vars>>

\* trim_unused_platforms returns; trim_unused_features starts.
TrimPlatformsDone ==
    /\ pc = "trim_unused_platforms"
    /\ to_remove = <<>>
    /\ pc' = "trim_unused_features"
    /\ UNCHANGED <<meta, features, fids, platforms, root, next_ix, to_visit,
                   seen, to_remove, round, log, result, name_vars, toml_vars>>

\* trim_unused_features, lines 204-211: the candidates of one round are
\* collected; the loop breaks when there are none.
TrimFeaturesCollect ==
    /\ pc = "trim_unused_features"
    /\ to_remove = <<>>
    /\ LET found == external_candidates(features)
       IN IF found = <<>>
          THEN pc' = "transitive_reduction" /\ to_remove' = to_remove
               /\ round' = round
          ELSE pc' = pc /\ to_remove' = found /\ round' = round + 1
    /\ UNCHANGED <<meta, features, fids, platforms, root, next_ix, to_visit,
                   seen, log, result, name_vars, toml_vars>>

\* trim_unused_features, lines 212-214: one removal of the drain loop.
TrimFeaturesRemove ==
    /\ pc = "trim_unused_features"
    /\ to_remove # <<>>
    /\ features' = remove_node(features, Head(to_remove))
    /\ to_remove' = Tail(to_remove)
    /\ UNCHANGED <<meta, fids, platforms, root, pc, next_ix, to_visit, seen,
                   round, log, result, name_vars, toml_vars>>

\* transitive_reduction: toposort fails on a cycle and expect() panics;
\* otherwise the edges outside the reduction are dropped and init() returns
\* Ok(graph).
TransitiveReduction ==
    /\ pc = "transitive_reduction"
    /\ IF HasCycle(features)
       THEN /\ pc' = "failed"
            /\ result' = "cycling dependencies are not supported"
            /\ features' = features
            /\ log' = log
       ELSE /\ pc' = "done"
            /\ result' = "Ok"
            /\ features' = retain_reduction(features)
            /\ log' = Some([before |-> Len(features.edges),
                            after |-> Len(features'.edges)])
    /\ UNCHANGED <<meta, fids, platforms, root, next_ix, to_visit, seen,
                   to_remove, round, name_vars, toml_vars>>

Next ==
    \/ AddPackage
    \/ FillStep
    \/ FillDone
    \/ TrimPlatformsStep
    \/ TrimPlatformsDone
    \/ TrimFeaturesCollect
    \/ TrimFeaturesRemove
    \/ TransitiveReduction

Spec == Init /\ [][Next]_vars

\* The loop of fill_in_platforms is back in a state it was in before: from
\* here it repeats itself for ever.
FillRevisits == pc = "fill_in_platforms" /\ <<to_visit, platforms>> \in seen

\* The stack bound cuts no run on an acyclic graph.
OomOnlyOnCycle == result = "OutOfMemory" => HasCycle(features)

(***************************************************************************)
(* The name-matching functions on their own: the inputs are drawn from all *)
(* names of at most MaxNameLen characters.                                 *)
(***************************************************************************)

OtherName == <<"p">>

\* The declared dependency the lookup runs over: named in_a, or renamed to
\* in_a.
DeclaredDep ==
    [name |-> IF in_rename THEN OtherName ELSE in_a,
     rename |-> IF in_rename THEN Some(in_a) ELSE None,
     optional |-> FALSE, features |-> <<>>]

InitName ==
    /\ in_a \in Names
    /\ in_b \in Names
    /\ in_rename \in BOOLEAN
    /\ out = [op |-> "none"]
    /\ meta = [workspace_members |-> {}, packages |-> <<>>, resolve |-> <<>>,
               platforms |-> <<>>]
    /\ features = add_node(EmptyGraph, Root)
    /\ root = 1
    /\ fids = EmptyMap
    /\ platforms = EmptyMap
    /\ pc = "idle"
    /\ next_ix = 1
    /\ to_visit = <<>>
    /\ seen = {}
    /\ to_remove = <<>>
    /\ round = 0
    /\ log = None
    /\ result = "none"
    /\ manifest = [dependencies |-> EmptyMap, stash |-> None]
    /\ toml_ret = [call |-> "none"]

\* name_cmp(in_a, in_b)
NameCmpCall ==
    /\ out' = [op |-> "name_cmp", ret |-> name_cmp(in_a, in_b)]
    /\ UNCHANGED <<in_a, in_b, in_rename, graph_vars, toml_vars>>

\* find_dep_by_name(&[DeclaredDep], in_b)
FindDepCall ==
    /\ out' = [op |-> "find_dep_by_name",
               ret |-> find_dep_by_name(<<DeclaredDep>>, in_b)]
    /\ UNCHANGED <<in_a, in_b, in_rename, graph_vars, toml_vars>>

NextName == NameCmpCall \/ FindDepCall

SpecName == InitName /\ [][NextName]_vars

(***************************************************************************)
(* toml.rs: set_dependencies on a manifest file.  The manifest is what a   *)
(* parse of the file yields: the [dependencies] table and the table        *)
(* package.metadata.hackerman.dependencies (the stash), None when the file *)
(* does not hold it.                                                       *)
(***************************************************************************)

\* The packages the PackageGraph knows, with name and version.
KnownPackages ==
    [ida |-> [name |-> "x", version |-> "1.0"],
     idb |-> [name |-> "x", version |-> "2.0"],
     idc |-> [name |-> "y", version |-> "1.0"]]

\* The package ids a patch may name; idz is unknown to the PackageGraph.
PatchIds == <<"ida", "idb", "idc", "idz">>

FeatureLists == {<<>>, <<"f">>}

\* The most entries a patch holds.
MaxPatch == 2

Patches ==
    UNION {[ids -> FeatureLists] :
              ids \in {S \in SUBSET {PatchIds[i] : i \in 1..Len(PatchIds)} :
                          Cardinality(S) <= MaxPatch}}

\* value(false)
TomlFalse == [bool |-> FALSE]

\* A dependency as the original manifest spells it.
OriginalDep == [version |-> "0.1", features |-> None]

AlreadyMsg == "already contains changes"

Put(table, key, val) ==
    [k \in DOMAIN table \cup {key} |-> IF k = key THEN val ELSE table[k]]

\* set_dependencies, lines 44-55: the patch entries from the k-th on, in the
\* order of the BTreeMap.  st holds the [dependencies] table and the changes.
RECURSIVE apply_patch(_, _, _)
apply_patch(st, patch, k) ==
    IF k > Len(PatchIds) THEN st
    ELSE IF PatchIds[k] \notin DOMAIN patch THEN apply_patch(st, patch, k + 1)
    ELSE IF PatchIds[k] \notin DOMAIN KnownPackages
    THEN [st EXCEPT !.ok = FALSE]
    ELSE LET dep == KnownPackages[PatchIds[k]]
             new_dep == [version |-> dep.version,
                         features |-> Some(patch[PatchIds[k]])]
             old == IF dep.name \in DOMAIN st.table
                    THEN Some(st.table[dep.name]) ELSE None
         IN apply_patch([ok |-> TRUE,
                         table |-> Put(st.table, dep.name, new_dep),
                         changes |-> Append(st.changes, <<dep.name, old>>)],
                        patch, k + 1)

\* set_dependencies, lines 58-64: the stash table after the changes from the
\* k-th on.
RECURSIVE stash_changes(_, _, _)
stash_changes(stash_table, changes, k) ==
    IF k > Len(changes) THEN stash_table
    ELSE stash_changes(
            Put(stash_table, changes[k][1],
                IF changes[k][2] # None THEN changes[k][2][1] ELSE TomlFalse),
            changes, k + 1)

\* toml.to_string() and a later parse: an empty table that to_table made
\* (implicit) is not written, so the file does not hold it.
written(table) == IF DOMAIN table = {} THEN None ELSE Some(table)

\* A mutation of set_dependencies: the stash is not looked at.
set_dependencies_unguarded(m, patch) ==
    LET r == apply_patch([ok |-> TRUE, table |-> m.dependencies,
                          changes |-> <<>>], patch, 1)
    IN IF ~r.ok THEN [ret |-> "Err: unknown package", manifest |-> m]
       ELSE [ret |-> "Ok",
             manifest |->
                [dependencies |-> r.table,
                 stash |-> written(stash_changes(
                              IF m.stash = None THEN EmptyMap ELSE m.stash[1],
                              r.changes, 1))]]

\* set_dependencies: what it returns and the manifest file afterwards.
set_dependencies(m, patch) ==
    IF m.stash # None
    THEN [ret |-> AlreadyMsg, manifest |-> m]
    ELSE LET r == apply_patch([ok |-> TRUE, table |-> m.dependencies,
                               changes |-> <<>>], patch, 1)
         IN IF ~r.ok THEN [ret |-> "Err: unknown package", manifest |-> m]
            ELSE [ret |-> "Ok",
                  manifest |->
                     [dependencies |-> r.table,
                      stash |-> written(stash_changes(EmptyMap, r.changes, 1))]]

InitToml ==
    /\ manifest \in
          [dependencies : UNION {[names -> {OriginalDep}] : names \in SUBSET {"x", "y"}},
           stash : {None, Some(EmptyMap)}]
    /\ toml_ret = [call |-> "none"]
    /\ in_a = <<>> /\ in_b = <<>> /\ in_rename = FALSE
    /\ out = [op |-> "none"]
    /\ meta = [workspace_members |-> {}, packages |-> <<>>, resolve |-> <<>>,
               platforms |-> <<>>]
    /\ features = add_node(EmptyGraph, Root)
    /\ root = 1
    /\ fids = EmptyMap
    /\ platforms = EmptyMap
    /\ pc = "idle"
    /\ next_ix = 1
    /\ to_visit = <<>>
    /\ seen = {}
    /\ to_remove = <<>>
    /\ round = 0
    /\ log = None
    /\ result = "none"

\* One call of set_dependencies on the manifest.
SetDependencies ==
    /\ \E patch \in Patches :
          LET r == set_dependencies(manifest, patch)
          IN /\ manifest' = r.manifest
             /\ toml_ret' = [call |-> "set_dependencies", patch |-> patch,
                             ret |-> r.ret]
    /\ UNCHANGED <<graph_vars, name_vars>>

\* The user restores the original file: every stashed entry goes back to the
\* [dependencies] table (an entry stashed as false is deleted) and the stash
\* is removed.
RestoreOriginal ==
    /\ manifest.stash # None
    /\ LET st == manifest.stash[1]
       IN manifest' =
             [dependencies |->
                 [n \in {k \in DOMAIN manifest.dependencies \cup DOMAIN st :
                            k \in DOMAIN st => st[k] # TomlFalse}
                    |-> IF n \in DOMAIN st THEN st[n]
                        ELSE manifest.dependencies[n]],
              stash |-> None]
    /\ toml_ret' = [call |-> "restore"]
    /\ UNCHANGED <<graph_vars, name_vars>>

NextToml == SetDependencies \/ RestoreOriginal

SpecToml == InitToml /\ [][NextToml]_vars

(***************************************************************************)
(* init() on snapshots whose package p has feature requirements of the     *)
(* form dep-name/feature-name, and declared dependencies that the resolve  *)
(* graph does not hold (left out for the platform).                        *)
(***************************************************************************)

\* The requirement "dep-name/a" on package j, as the manifest spells it.
ReqOn(j) == PkgNames[j] \o <<"/">> \o FA

\* The declarations of p: on d, on d-e, or on both.
LocalDepSets == {D \in DepSetsUpTo(MaxDeps) : \A x \in D : x.from = 3}

\* The feature table of p: "a" requires features of declared dependencies,
\* "default" is absent or requires nothing or "a".
LocalFeatSets(D) ==
    {{[pkg |-> 3, key |-> FA, reqs |-> r]} \cup dflt :
        r \in {q \in {<<>>, <<ReqOn(1)>>, <<ReqOn(2)>>, <<ReqOn(1), ReqOn(2)>>,
                      <<ReqOn(2), FDefault>>} :
                  \A k \in 1..Len(q) :
                     \/ q[k] = FDefault
                     \/ \E x \in D : ReqOn(x.to) = q[k]},
        dflt \in {{}, {[pkg |-> 3, key |-> FDefault, reqs |-> <<>>]}}}

\* The package with every requested feature of its declarations listed
\* twice (features = ["a", "a"]) when twice holds.
ListedTwice(package, twice) ==
    IF ~twice THEN package
    ELSE [package EXCEPT !.dependencies =
            [k \in 1..Len(package.dependencies) |->
                [package.dependencies[k] EXCEPT !.features =
                    package.dependencies[k].features
                        \o package.dependencies[k].features]]]

\* cargo rejects a manifest with a feature that requires an undeclared one.
LocalSnapshots ==
    UNION {UNION {
        {[workspace_members |-> {3},
          packages |-> [i \in Pids |-> ListedTwice(PackageOf(i, D, F), twice)],
          resolve |-> [i \in Pids |-> NodeOf(i, R)],
          platforms |-> pl] :
            F \in {G \in LocalFeatSets(D) :
                     \A f \in G : \A k \in 1..Len(f.reqs) :
                        f.reqs[k] = FDefault =>
                           \E g \in G : g.key = FDefault},
            pl \in PlatformLists,
            twice \in {t \in BOOLEAN : t => \E x \in D : x.features # <<>>}} :
        R \in SUBSET D} : D \in LocalDepSets}

InitLocal ==
    /\ meta \in LocalSnapshots
    /\ features = add_node(EmptyGraph, Root)
    /\ root = 1
    /\ fids = EmptyMap
    /\ platforms = EmptyMap
    /\ pc = "add_package"
    /\ next_ix = 1
    /\ to_visit = <<>>
    /\ seen = {}
    /\ to_remove = <<>>
    /\ round = 0
    /\ log = None
    /\ result = "none"
    /\ in_a = <<>> /\ in_b = <<>> /\ in_rename = FALSE
    /\ out = [op |-> "none"]
    /\ manifest = [dependencies |-> EmptyMap, stash |-> None]
    /\ toml_ret = [call |-> "none"]

SpecLocal == InitLocal /\ [][Next]_vars

(***************************************************************************)
(* Claims                                                                  *)
(***************************************************************************)

\* The weights of the nodes of a graph (one node per Fid, so a set).
Weights(g) == {g.nodes[i] : i \in NodeIndices(g)}

HasEdge(g, a, b) == <<a, b>> \in Arcs(g)

\* C1: building from a snapshot whose feature edges hold a cycle always ends
\* in the failure that reports the cycle: init() does not return a graph and
\* the loop of fill_in_platforms does not come back to a state it was in
\* (it would then repeat itself for ever).
C1_CycleAlwaysReported ==
    HasCycle(features) => (result # "Ok" /\ ~FillRevisits)

\* C2: transitive_reduction keeps the nodes and, for every pair (A, B) of them,
\* A reaches B afterwards iff A reached B before.
C2_ReductionPreservesReachability ==
    [][(pc = "transitive_reduction" /\ pc' = "done") =>
          /\ features'.nodes = features.nodes
          /\ \A a \in NodeIndices(features) :
                Succ(a, Arcs(features')) = Succ(a, Arcs(features))]_vars

\* A finished build whose reduction dropped at least one edge.
C2_Witness ==
    /\ pc = "done"
    /\ log # None
    /\ log[1].after < log[1].before

\* The platform list fill_in_platforms computed for the node of weight w is
\* empty (the Fid map still holds the index the node had during the fill).
ComputedEmpty(w) ==
    /\ Fid(w.pid, w.feat) \in DOMAIN fids
    /\ fids[Fid(w.pid, w.feat)] \in DOMAIN platforms
    /\ platforms[fids[Fid(w.pid, w.feat)]] = <<>>

\* C3: once trim_unused_platforms has run (and through the rest of optimize)
\* no node whose computed platform set is empty is left in the graph.
C3_NoEmptyPlatformNodeRemains ==
    pc \in {"trim_unused_features", "transitive_reduction", "done"} =>
        \A w \in Weights(features) : w.tag # "Root" => ~ComputedEmpty(w)

NoIncoming(g, f) == \A k \in 1..Len(g.edges) : g.edges[k].target # f

\* C4: trim_unused_features removes only External nodes that have no incoming
\* edge at the moment of their removal (never Root, never a Workspace node),
\* every round that finds a candidate removes at least one node, and when the
\* pass is over no External node without an incoming edge is left.
C4_TrimFeaturesFixpoint ==
    /\ [](pc \in {"transitive_reduction", "done"} =>
            \A f \in NodeIndices(features) :
                features.nodes[f].tag = "External" => ~NoIncoming(features, f))
    /\ [][(pc = "trim_unused_features" /\ to_remove # <<>>
             /\ to_remove' = Tail(to_remove)) =>
            IF Head(to_remove) \in NodeIndices(features)
            THEN /\ features.nodes[Head(to_remove)].tag = "External"
                 /\ NoIncoming(features, Head(to_remove))
                 /\ Weights(features') =
                       Weights(features) \ {features.nodes[Head(to_remove)]}
                 /\ Len(features'.nodes) = Len(features.nodes) - 1
            ELSE features' = features]_vars
    /\ [][round' > round =>
            /\ to_remove' # <<>>
            /\ Head(to_remove') \in NodeIndices(features)]_vars

\* The pass is over after three rounds of removals: the later rounds removed
\* nodes that lost their last incoming edge in the round before.
C4_Witness ==
    /\ pc = "transitive_reduction"
    /\ round >= 3

\* A name with its letters in lower case and '-' spelt '_'.
Normalised(a) ==
    [i \in 1..Len(a) |->
        IF a[i] = "-" THEN "_" ELSE to_ascii_lowercase(a[i])]

\* C5: two names that differ only by ASCII case or by '-' versus '_' at some
\* positions match, whichever of the two carries the '-': name_cmp returns
\* true on them and find_dep_by_name finds the declaration.
C5_MatchesUpToCaseAndSeparator ==
    Normalised(in_a) = Normalised(in_b) =>
        /\ out.op = "name_cmp" => out.ret = TRUE
        /\ out.op = "find_dep_by_name" => out.ret # None

Elems(seq) == {seq[i] : i \in 1..Len(seq)}

DeclaresFeature(P, key) ==
    \E k \in 1..Len(meta.packages[P].features) :
        meta.packages[P].features[k].key = key

\* The edges of g out of Root into a node of package P.
RootEdgesOf(g, P) ==
    {k \in 1..Len(g.edges) :
        g.edges[k].source = root /\ g.nodes[g.edges[k].target].pid = P}

\* The node of g that carries Fid(P, feat), if there is one.
HasNode(g, P, feat) == \E w \in Weights(g) : w.pid = P /\ w.feat = feat
NodeAt(g, P, feat) ==
    CHOOSE i \in NodeIndices(g) : g.nodes[i].pid = P /\ g.nodes[i].feat = feat

HasFeatEdge(g, P, f1, f2) ==
    /\ HasNode(g, P, f1)
    /\ HasNode(g, P, f2)
    /\ HasEdge(g, NodeAt(g, P, f1), NodeAt(g, P, f2))

\* C6: in the constructed graph a workspace member P has exactly one edge out
\* of Root, to Fid(P, Some("default")) when P declares "default" and to
\* Fid(P, None) otherwise, and the other packages have none; when P declares
\* "default" -> ["a"], the graph init() returns holds the path
\* Root -> Fid(P, Some("default")) -> Fid(P, Some("a")) -> Fid(P, None).
C6_DefaultActivation ==
    /\ pc = "fill_in_platforms" =>
          \A P \in Pids :
             IF P \in meta.workspace_members
             THEN /\ Cardinality(RootEdgesOf(features, P)) = 1
                  /\ \A k \in RootEdgesOf(features, P) :
                        features.nodes[features.edges[k].target].feat =
                           IF DeclaresFeature(P, FDefault)
                           THEN Some(FDefault) ELSE None
             ELSE RootEdgesOf(features, P) = {}
    /\ pc = "done" =>
          \A P \in meta.workspace_members :
             (\E k \in 1..Len(meta.packages[P].features) :
                 /\ meta.packages[P].features[k].key = FDefault
                 /\ meta.packages[P].features[k].reqs = <<FA>>)
             => /\ HasNode(features, P, Some(FDefault))
                /\ HasEdge(features, root, NodeAt(features, P, Some(FDefault)))
                /\ HasFeatEdge(features, P, Some(FDefault), Some(FA))
                /\ HasFeatEdge(features, P, Some(FA), None)

\* The edges of g from a node of package P to a node of package D.
EdgesBetween(g, P, D) ==
    {k \in 1..Len(g.edges) :
        /\ g.nodes[g.edges[k].source].pid = P
        /\ g.nodes[g.edges[k].source].tag # "Root"
        /\ g.nodes[g.edges[k].target].pid = D}

\* C7: in the constructed graph, for a package P without a feature table and
\* a dependency of P on D that requests no features: when it is declared
\* optional, exactly one edge runs from Fid(P, Some(name of D)) to
\* Fid(D, None), it is the only edge from P to D and carries optional = true;
\* when it is not optional, the edge runs from Fid(P, None) to Fid(D, None)
\* and carries optional = false.
C7_OptionalEdgeSourcing ==
    pc = "fill_in_platforms" =>
       \A P \in Pids :
          meta.packages[P].features = <<>> =>
             \A j \in 1..Len(meta.packages[P].dependencies) :
                LET decl == meta.packages[P].dependencies[j]
                    r == CHOOSE x \in Elems(meta.resolve[P].deps) :
                            PkgNames[x.pkg] = decl.name
                    D == r.pkg
                    src == IF decl.optional THEN Some(r.name) ELSE None
                    es == EdgesBetween(features, P, D)
                IN decl.features = <<>> =>
                      /\ Cardinality(es) = 1
                      /\ \A k \in es :
                            /\ features.nodes[features.edges[k].source].feat = src
                            /\ features.nodes[features.edges[k].target].feat = None
                            /\ features.edges[k].weight.optional = decl.optional

\* The arcs of g whose edge is active on platform p.
ActiveArcs(g, p) ==
    {<<g.edges[k].source, g.edges[k].target>> :
        k \in {j \in 1..Len(g.edges) : edge_active(g.edges[j].weight, p)}}

\* C8: when fill_in_platforms has returned, a requested platform p is in the
\* platform set of a node N iff some path from Root to N runs over edges that
\* are all active on p.
C8_PlatformSetIsReachability ==
    (pc = "trim_unused_platforms"
       /\ to_remove = empty_platform_keys(platforms, 1)
       /\ Len(features.nodes) = Cardinality(DOMAIN fids) + 1) =>
       \A n \in NodeIndices(features) \ {root} :
          \A p \in Elems(meta.platforms) :
             (n \in DOMAIN platforms /\ p \in Elems(platforms[n]))
                <=> n \in ReachFrom({root}, ActiveArcs(features, p))

\* C9: a set_dependencies call that succeeds with a non-empty patch leaves a
\* stash in the manifest, and a call on a manifest that holds a stash returns
\* the 'already contains changes' error and leaves the manifest as it was.
C9_DoubleApplicationRefused ==
    [][toml_ret'.call = "set_dependencies" =>
          /\ manifest.stash # None =>
                (toml_ret'.ret = AlreadyMsg /\ manifest' = manifest)
          /\ (toml_ret'.ret = "Ok" /\ DOMAIN toml_ret'.patch # {}) =>
                (manifest.stash = None /\ manifest'.stash # None)]_vars

\* A call was refused on a manifest that an earlier call has patched.
C9_Witness ==
    /\ toml_ret.call = "set_dependencies"
    /\ toml_ret.ret = AlreadyMsg
    /\ manifest.stash # None
    /\ \E n \in DOMAIN manifest.stash[1] :
          /\ n \in DOMAIN manifest.dependencies
          /\ manifest.dependencies[n].features # None

\* The platform list the loop of fill_in_platforms works with at node source.
PlatformsAt(source) ==
    IF source = root THEN meta.platforms ELSE platforms[source]

\* C10: in every turn of the loop of fill_in_platforms the nodes that have a
\* platform set keep it, a node that gets one gets the set of the popped
\* source (the requested list for Root) filtered by the first edge of the
\* source that arrives at it, and every set holds requested platforms only;
\* no later step changes an assigned set.
C10_FirstWriterWins ==
    /\ [][\A n \in DOMAIN platforms :
             n \in DOMAIN platforms' /\ platforms'[n] = platforms[n]]_vars
    /\ [][(pc = "fill_in_platforms" /\ to_visit # <<>> /\ pc' = pc) =>
            LET source == to_visit[Len(to_visit)]
                es == edges_directed(features, source)
            IN \A n \in DOMAIN platforms' \ DOMAIN platforms :
                  \E k \in 1..Len(es) :
                     /\ es[k].target = n
                     /\ \A j \in 1..(k - 1) : es[j].target # n
                     /\ platforms'[n] =
                           edge_filter(PlatformsAt(source), es[k].weight)]_vars
    /\ [](\A n \in DOMAIN platforms :
             Elems(platforms[n]) \subseteq Elems(meta.platforms))

\* fill_in_platforms has returned and some edge arrives at a node with a
\* platform that the node's set does not hold.
C10_Witness ==
    /\ pc = "trim_unused_platforms"
    /\ \E k \in 1..Len(features.edges) :
          LET e == features.edges[k]
          IN /\ e.source = root \/ e.source \in DOMAIN platforms
             /\ e.target \in DOMAIN platforms
             /\ Len(features.nodes) = Cardinality(DOMAIN fids) + 1
             /\ ~(Elems(edge_filter(PlatformsAt(e.source), e.weight))
                    \subseteq Elems(platforms[e.target]))

\* The edges of g from the node of Fid(P, f1) to the node of Fid(D, f2).
FidEdges(g, P, f1, D, f2) ==
    {k \in 1..Len(g.edges) :
        /\ g.nodes[g.edges[k].source].pid = P
        /\ g.nodes[g.edges[k].source].feat = f1
        /\ g.nodes[g.edges[k].target].pid = D
        /\ g.nodes[g.edges[k].target].feat = f2}

\* The entries of P's resolved dependencies that stand for package D.
ResolvedOf(P, D) == {x \in Elems(meta.resolve[P].deps) : x.pkg = D}

\* C11: in the constructed graph, for a feature "key" of P: a requirement
\* dep-name/a on a dependency D without an entry among P's resolved
\* dependencies adds no edge and the build does not fail; when D has an
\* entry, exactly one edge Fid(P, Some(key)) -> Fid(D, Some("a")) is added
\* and carries the kinds of that entry; a bare requirement adds one
\* unconditional edge Fid(P, Some(key)) -> Fid(P, Some(requirement)).
C11_LocalRequirements ==
    /\ result # "NameNotFound"
    /\ pc = "fill_in_platforms" =>
          \A P \in Pids : \A t \in 1..Len(meta.packages[P].features) :
             LET key == meta.packages[P].features[t].key
                 reqs == meta.packages[P].features[t].reqs
             IN /\ \A D \in Pids \ {P} :
                      LET es == FidEdges(features, P, Some(key), D, Some(FA))
                      IN IF ReqOn(D) \in Elems(reqs) /\ ResolvedOf(P, D) # {}
                         THEN /\ Cardinality(es) = 1
                              /\ \A k \in es : \E x \in ResolvedOf(P, D) :
                                    features.edges[k].weight.kinds = x.dep_kinds
                         ELSE es = {}
                /\ \A k \in 1..Len(reqs) :
                      split_once(reqs[k]) = None =>
                         LET es == FidEdges(features, P, Some(key), P, Some(reqs[k]))
                         IN /\ Cardinality(es) = 1
                            /\ \A e \in es : features.edges[e].weight = root_link

\* C12: in the graph init() returns no edge (u, v) has another path from u
\* to v beside it, and no two edges run between the same ordered pair of
\* nodes.
C12_ReductionIsMinimal ==
    pc = "done" =>
       \A k \in 1..Len(features.edges) :
          LET u == features.edges[k].source
              v == features.edges[k].target
          IN /\ \A c \in NodeIndices(features) \ {v} :
                   HasEdge(features, u, c) =>
                      v \notin ReachFrom({c}, Arcs(features))
             /\ \A j \in 1..Len(features.edges) :
                   (features.edges[j].source = u /\ features.edges[j].target = v)
                      => j = k

\* The node at index n of the graph carries the Fid f.
Carries(n, f) ==
    /\ n \in NodeIndices(features)
    /\ features.nodes[n].tag # "Root"
    /\ features.nodes[n].pid = f.pid
    /\ features.nodes[n].feat = f.feat

\* C13: while optimize removes nodes and afterwards, an entry of the Fid map
\* whose node is still in the graph refers to the node that carries that Fid,
\* an entry of the platform map whose node is still in the graph refers to
\* that node, and the stored root index refers to the Root node.
C13_IndicesStayValid ==
    pc \in {"trim_unused_platforms", "trim_unused_features",
            "transitive_reduction", "done"} =>
       /\ \A f \in DOMAIN fids :
             HasNode(features, f.pid, f.feat) => Carries(fids[f], f)
       /\ \A n \in DOMAIN platforms : \A f \in DOMAIN fids :
             (fids[f] = n /\ HasNode(features, f.pid, f.feat)) => Carries(n, f)
       /\ root \in NodeIndices(features)
       /\ features.nodes[root].tag = "Root"

\* C14: find_dep_by_name returns the declaration only if its name (its
\* rename, when it has one) equals the looked-up name after lower-casing and
\* identifying '-' with '_', so never for names of different lengths, and
\* name_cmp returns true only on such a pair.
C14_MatchIsExact ==
    /\ out.op = "find_dep_by_name" =>
          (out.ret # None => Normalised(in_a) = Normalised(in_b))
    /\ out.op = "name_cmp" =>
          (out.ret = TRUE => Normalised(in_a) = Normalised(in_b))

====
